---------------------------- MODULE Spec2Model ----------------------------
(***************************************************************************)
(* tevclient: the IPC packet encoder (IpcPacket, IpcPacket::OStream), the  *)
(* session (Client::Impl: auto-connecting send, last error), the public    *)
(* commands of Client and the process-wide instance counter, modelled from *)
(* src/src/tevclient.cpp and src/include/tevclient.h.                      *)
(*                                                                         *)
(* Bytes are naturals 0..255.  Strings are sequences of character codes.   *)
(* Scalars are written in the host's byte order; the model is of a         *)
(* little-endian host.  Every number of the model stays below 2^31, where  *)
(* the casts (uint32_t)mIdx and (int)message.size() are the identity.      *)
(***************************************************************************)
EXTENDS Integers, Sequences, FiniteSets, TLC

(***************************************************************************)
(* Bounds of the model.                                                    *)
(***************************************************************************)
\* widths and heights are drawn from 0..MaxDim
MaxDim == 2
\* name resolution yields 1..MaxAddrs candidate addresses
MaxAddrs == 2
\* sessions constructed in one run of the bootstrap model
MaxCreates == 4
\* threads that construct and destroy sessions in the bootstrap model
MaxThreads == 3
\* channel counts are drawn from 0..MaxCount
MaxCount == 5
\* commands called one after the other in the wire model
MaxCalls == 3

(***************************************************************************)
(* Scalars on the wire.                                                    *)
(***************************************************************************)
\* byte i (1 = least significant) of the two's complement image of v
ByteOf(v, i) ==
    IF i <= 4 THEN (v \div (256 ^ (i - 1))) % 256
    ELSE IF v < 0 THEN 255 ELSE 0

\* sizeof(T) bytes of an integral T var, as *(T *)&mData[mIdx] = var stores them
LE(v, n) == [i \in 1..n |-> ByteOf(v, i)]

\* the value of little-endian unsigned bytes (a receiver's reading)
RECURSIVE FromLE(_)
FromLE(bs) == IF bs = <<>> THEN 0 ELSE bs[1] + 256 * FromLE(Tail(bs))

\* a float is modelled by a small integer naming its bit pattern
F32(f) == LE(f, 4)

(***************************************************************************)
(* IpcPacket::EType                                                        *)
(***************************************************************************)
OpenImage == 0
ReloadImage == 1
CloseImage == 2
UpdateImage == 3
CreateImage == 4
UpdateImageV2 == 5
UpdateImageV3 == 6
OpenImageV2 == 7
VectorGraphics == 8

(***************************************************************************)
(* IpcPacket::OStream: a cursor mIdx into the packet's byte vector mData.  *)
(***************************************************************************)
\* std::vector<char>::resize(n): truncates, or grows with zero bytes
Resize(d, n) ==
    IF n <= Len(d) THEN SubSeq(d, 1, n) ELSE d \o [i \in 1..(n - Len(d)) |-> 0]

\* the bytes bs stored at index idx (0-based) of d, which holds that range
Store(d, idx, bs) ==
    SubSeq(d, 1, idx) \o bs \o SubSeq(d, idx + Len(bs) + 1, Len(d))

\* *((uint32_t *)mData.data()) = (uint32_t)mIdx
updateSize(os) == [os EXCEPT !.mData = Store(os.mData, 0, LE(os.mIdx, 4))]

\* operator<<(T var) for an integral T of Len(bs) bytes
Put(os, bs) ==
    LET n == Len(bs)
        grown == IF Len(os.mData) < os.mIdx + n
                 THEN Resize(os.mData, os.mIdx + n) ELSE os.mData
    IN  updateSize([mData |-> Store(grown, os.mIdx, bs), mIdx |-> os.mIdx + n])

\* operator<<(bool var)
PutBool(os, var) ==
    LET grown == IF Len(os.mData) < os.mIdx + 1
                 THEN Resize(os.mData, os.mIdx + 1) ELSE os.mData
    IN  updateSize([mData |-> Store(grown, os.mIdx, <<IF var THEN 1 ELSE 0>>),
                    mIdx |-> os.mIdx + 1])

\* the bytes of a float array, as memcpy sees them
RECURSIVE FloatBytes(_)
FloatBytes(fs) == IF fs = <<>> THEN <<>> ELSE F32(Head(fs)) \o FloatBytes(Tail(fs))

\* a write() that leaves the size field as it was
write_stale(os, bs) ==
    LET len == Len(bs)
    IN  [mData |-> Store(Resize(os.mData, os.mIdx + len), os.mIdx, bs),
         mIdx |-> os.mIdx + len]

\* OStream::write(data, len)
write(os, bs) ==
    LET len == Len(bs)
    IN  updateSize([mData |-> Store(Resize(os.mData, os.mIdx + len), os.mIdx, bs),
                    mIdx |-> os.mIdx + len])

(***************************************************************************)
(* What a builder writes is listed as a sequence of writes, each one call  *)
(* of an operator<< overload or of write(), and streamed in order.         *)
(***************************************************************************)
\* operator<<(T var) of an integral var whose bytes are bs
Scalar(bs) == <<[op |-> "scalar", bytes |-> bs]>>

\* operator<<(bool var)
Bool(var) == <<[op |-> "bool", var |-> var]>>

\* operator<<(const std::string &var): operator<<(char) for each character,
\* then for '\0'
String(var) == [i \in 1..(Len(var) + 1) |->
                    [op |-> "scalar", bytes |-> <<IF i <= Len(var) THEN var[i] ELSE 0>>]]

\* operator<<(const std::vector<std::string> &var)
RECURSIVE Strings(_)
Strings(var) == IF var = <<>> THEN <<>> ELSE String(Head(var)) \o Strings(Tail(var))

\* operator<<(const std::vector<int64_t> &var)
Int64s(var) == [i \in 1..Len(var) |-> [op |-> "scalar", bytes |-> LE(var[i], 8)]]

\* OStream::write(data, len)
Raw(bs) == <<[op |-> "write", bytes |-> bs]>>

\* OStream(std::vector<char> &data): reserves the size field
OStream(data) == Put([mData |-> data, mIdx |-> 0], LE(0, 4))

\* one write applied to the stream
Apply(os, w) ==
    CASE w.op = "bool" -> PutBool(os, w.var)
      [] w.op = "write" -> write(os, w.bytes)
      [] OTHER -> Put(os, w.bytes)

\* the writes applied in order.  The cursor never moves back; stating so
\* has TLC evaluate each write before it goes on to the next.
RECURSIVE Stream(_, _)
Stream(os, writes) ==
    IF writes = <<>> THEN os
    ELSE LET next == Apply(os, Head(writes))
         IN  IF next.mIdx >= os.mIdx THEN Stream(next, Tail(writes)) ELSE next

(***************************************************************************)
(* size_t arithmetic.  A size_t is held as the integer v with |v| < 2^31   *)
(* that is congruent to it modulo 2^64: a negative v is the value 2^64+v.  *)
(***************************************************************************)
\* a < b on size_t
SizeLess(a, b) == IF (a < 0) = (b < 0) THEN a < b ELSE b < 0

\* std::max(a, b) on size_t
SizeMax(a, b) == IF SizeLess(a, b) THEN b ELSE a

\* the loop of setUpdateImage over the channels c, from the running maximum acc
RECURSIVE StridedSizeLoop(_, _, _, _)
StridedSizeLoop(acc, channelOffsets, channelStrides, nPixels) ==
    IF channelOffsets = <<>> THEN acc
    ELSE StridedSizeLoop(
            SizeMax(acc, Head(channelOffsets) + (nPixels - 1) * Head(channelStrides) + 1),
            Tail(channelOffsets), Tail(channelStrides), nPixels)

\* size_t stridedImageDataSize of setUpdateImage
stridedImageDataSize(channelOffsets, channelStrides, nPixels) ==
    StridedSizeLoop(0, channelOffsets, channelStrides, nPixels)

(***************************************************************************)
(* IpcPacket: each set* operator takes the packet's byte vector mPayload   *)
(* and gives the vector afterwards and whether std::runtime_error was      *)
(* thrown.  The OStream writes into the packet's own vector, so what was   *)
(* written before a throw stays in it.                                     *)
(***************************************************************************)
\* the packet of the first protocol version: OpenImage, and no channel selector
setOpenImage_v1(mPayload, imagePath, channelSelector, grabFocus) ==
    LET payload == Stream(OStream(mPayload),
                          Scalar(<<OpenImage>>) \o Bool(grabFocus) \o String(imagePath))
    IN  [mPayload |-> payload.mData, thrown |-> FALSE]

setOpenImage(mPayload, imagePath, channelSelector, grabFocus) ==
    LET payload == Stream(OStream(mPayload),
                          Scalar(<<OpenImageV2>>) \o Bool(grabFocus)
                          \o String(imagePath) \o String(channelSelector))
    IN  [mPayload |-> payload.mData, thrown |-> FALSE]

setReloadImage(mPayload, imageName, grabFocus) ==
    LET payload == Stream(OStream(mPayload),
                          Scalar(<<ReloadImage>>) \o Bool(grabFocus)
                          \o String(imageName))
    IN  [mPayload |-> payload.mData, thrown |-> FALSE]

setCloseImage(mPayload, imageName) ==
    LET payload == Stream(OStream(mPayload),
                          Scalar(<<CloseImage>>) \o String(imageName))
    IN  [mPayload |-> payload.mData, thrown |-> FALSE]

\* the overload taking const float *imageData and size_t imageDataLength;
\* imageData is the sequence of imageDataLength floats at the pointer
setUpdateImage(mPayload, imageName, grabFocus, channelDescs, x, y, width, height, imageData) ==
    IF channelDescs = <<>> THEN [mPayload |-> mPayload, thrown |-> TRUE]
    ELSE
    LET nChannels == Len(channelDescs)
        channelNames == [i \in 1..nChannels |-> channelDescs[i].name]
        channelOffsets == [i \in 1..nChannels |-> channelDescs[i].offset]
        channelStrides == [i \in 1..nChannels |-> channelDescs[i].stride]
        payload == Stream(OStream(mPayload),
                          Scalar(<<UpdateImageV3>>) \o Bool(grabFocus)
                          \o String(imageName)
                          \o Scalar(LE(nChannels, 4))
                          \o Strings(channelNames)
                          \o Scalar(LE(x, 4)) \o Scalar(LE(y, 4))
                          \o Scalar(LE(width, 4)) \o Scalar(LE(height, 4))
                          \o Int64s(channelOffsets)
                          \o Int64s(channelStrides))
        nPixels == width * height
        size == stridedImageDataSize(channelOffsets, channelStrides, nPixels)
    IN  IF Len(imageData) # size
        THEN [mPayload |-> payload.mData, thrown |-> TRUE]
        ELSE [mPayload |-> Stream(payload, Raw(FloatBytes(imageData))).mData,
              thrown |-> FALSE]

setCreateImage(mPayload, imageName, grabFocus, width, height, nChannels, channelNames) ==
    IF Len(channelNames) # nChannels THEN [mPayload |-> mPayload, thrown |-> TRUE]
    ELSE
    LET payload == Stream(OStream(mPayload),
                          Scalar(<<CreateImage>>) \o Bool(grabFocus)
                          \o String(imageName)
                          \o Scalar(LE(width, 4)) \o Scalar(LE(height, 4))
                          \o Scalar(LE(nChannels, 4))
                          \o Strings(channelNames))
    IN  [mPayload |-> payload.mData, thrown |-> FALSE]

\* the loop of setVectorGraphics.  command.type is an int8_t enumerator: one
\* byte.  command.data is float[MaxPayload] (tevclient.h), which operator<<(T)
\* takes by value as a pointer: sizeof(const float *) bytes holding the address
\* of the array inside the element of the caller's vector (elements are 36
\* bytes apart, data 4 bytes into each).
Commands(commands, addr, ptrSize) ==
    [k \in 1..(2 * Len(commands)) |->
        IF k % 2 = 1
        THEN [op |-> "scalar", bytes |-> <<commands[(k + 1) \div 2].type>>]
        ELSE [op |-> "scalar",
              bytes |-> LE(addr + 36 * ((k \div 2) - 1) + 4, ptrSize)]]

\* addr: the address of commands[0]; ptrSize: sizeof(const float *)
setVectorGraphics(mPayload, imageName, grabFocus, append, commands, addr, ptrSize) ==
    LET payload == Stream(OStream(mPayload),
                          Scalar(<<VectorGraphics>>) \o Bool(grabFocus)
                          \o String(imageName) \o Bool(append)
                          \o Scalar(LE(Len(commands), 4))
                          \o Commands(commands, addr, ptrSize))
    IN  [mPayload |-> payload.mData, thrown |-> FALSE]

(***************************************************************************)
(* enum class Error.  tevclient.cpp reports a rejected argument with the   *)
(* enumerator it calls ImageError; tevclient.h lists the argument-error    *)
(* kind as ArgumentError.  It is one kind, the only one next to Ok,        *)
(* NotConnected and SocketError.                                           *)
(***************************************************************************)
Ok == "Ok"
NotConnected == "NotConnected"
SocketError == "SocketError"
ImageError == "ImageError"

\* an exception leaving the call: the call returns no Error at all
RuntimeError == "std::runtime_error"

INVALID_SOCKET == "INVALID_SOCKET"
\* the descriptor ::socket() returns when it succeeds
SocketFd == "fd"

(***************************************************************************)
(* Client::Impl.  A session s is [mSocketFd, mLastError, mLastErrorString].*)
(* The text errorString(lastSocketError()) appends to a message comes from *)
(* the platform and is left out of the modelled messages.                  *)
(***************************************************************************)
setLastError(s, error, errorString) ==
    [s EXCEPT !.mLastError = error, !.mLastErrorString = errorString]

connected(s) == s.mSocketFd # INVALID_SOCKET

\* the loop of connect() over the candidate addresses; addrinfo is the
\* sequence of what happens at each: "socket_fails", "connect_fails", "connects"
RECURSIVE connectLoop(_, _)
connectLoop(s, addrinfo) ==
    IF addrinfo = <<>> THEN s
    ELSE CASE Head(addrinfo) = "socket_fails" ->
                connectLoop(setLastError([s EXCEPT !.mSocketFd = INVALID_SOCKET],
                                         SocketError, "socket() failed: "),
                            Tail(addrinfo))
           [] Head(addrinfo) = "connect_fails" ->
                connectLoop(setLastError([s EXCEPT !.mSocketFd = INVALID_SOCKET],
                                         SocketError, "connect() failed: "),
                            Tail(addrinfo))
           [] OTHER -> [s EXCEPT !.mSocketFd = SocketFd]

\* net.gai: whether getaddrinfo() succeeds; net.addrinfo: the candidates
connect(s, net) ==
    IF connected(s) THEN [s |-> s, ret |-> Ok]
    ELSE IF ~net.gai
         THEN [s |-> setLastError(s, SocketError, "getaddrinfo() failed: "),
               ret |-> SocketError]
         ELSE LET s1 == connectLoop(
                           [setLastError(s, Ok, "") EXCEPT !.mSocketFd = INVALID_SOCKET],
                           net.addrinfo)
              IN  [s |-> s1, ret |-> s1.mLastError]

\* Error disconnect(); closes: whether closeSocket() succeeds.  mSocketFd is
\* left as it is.
disconnect(s, closes) ==
    IF connected(s) /\ ~closes
    THEN [s |-> setLastError(s, SocketError, "Error closing socket: "), ret |-> SocketError]
    ELSE [s |-> s, ret |-> Ok]

\* what ::send() returns for a message of n bytes
BytesSent(n, outcome) ==
    CASE outcome = "all" -> n
      [] outcome = "short" -> n - 1
      [] OTHER -> -1

\* a send() that does not look at the connection
send_noConnect(s, message, net, outcome) ==
    LET bytesSent == BytesSent(Len(message), outcome)
        call == [msg |-> message, bytesSent |-> bytesSent]
    IN  IF bytesSent # Len(message)
        THEN [s |-> setLastError(s, SocketError, "socket send() failed: "),
              ret |-> SocketError, sent |-> <<call>>, connects |-> 0]
        ELSE [s |-> s, ret |-> Ok, sent |-> <<call>>, connects |-> 0]

\* a send() that hands the message over once more after the transport took it
send_resend(s, message, net, outcome) ==
    LET c == IF connected(s) THEN [s |-> s, ret |-> Ok] ELSE connect(s, net)
        n == IF connected(s) THEN 0 ELSE 1
    IN  IF c.ret # Ok
        THEN [s |-> c.s, ret |-> c.ret, sent |-> <<>>, connects |-> n]
        ELSE LET bytesSent == BytesSent(Len(message), outcome)
                 call == [msg |-> message, bytesSent |-> bytesSent]
             IN  IF bytesSent # Len(message)
                 THEN [s |-> setLastError(c.s, SocketError, "socket send() failed: "),
                       ret |-> SocketError, sent |-> <<call>>, connects |-> n]
                 ELSE [s |-> c.s, ret |-> Ok, sent |-> <<call, call>>, connects |-> n]

\* Error send(const IpcPacket &message).  Gives the session afterwards, the
\* Error returned, the calls of ::send() made (the message handed over and
\* the count the transport took) and the number of calls of connect().
send(s, message, net, outcome) ==
    LET c == IF connected(s) THEN [s |-> s, ret |-> Ok] ELSE connect(s, net)
        n == IF connected(s) THEN 0 ELSE 1
    IN  IF c.ret # Ok
        THEN [s |-> c.s, ret |-> c.ret, sent |-> <<>>, connects |-> n]
        ELSE LET bytesSent == BytesSent(Len(message), outcome)
                 call == [msg |-> message, bytesSent |-> bytesSent]
             IN  IF bytesSent # Len(message)
                 THEN [s |-> setLastError(c.s, SocketError, "socket send() failed: "),
                       ret |-> SocketError, sent |-> <<call>>, connects |-> n]
                 ELSE [s |-> c.s, ret |-> Ok, sent |-> <<call>>, connects |-> n]

\* "R", "G", "B", "A"
RGBA == <<<<82>>, <<71>>, <<66>>, <<65>>>>

\* descriptors of channels that each lie tight on their own: stride 1
DefaultChannelDescs_tight(channelCount) ==
    [i \in 1..channelCount |-> [name |-> RGBA[i], offset |-> i - 1, stride |-> 1]]

\* the switch of the default path: {"R", 0, n}, {"G", 1, n}, ...
DefaultChannelDescs(channelCount) ==
    [i \in 1..channelCount |->
        [name |-> RGBA[i], offset |-> i - 1, stride |-> channelCount]]

\* VgCommand::EType (tevclient.h): the kinds the modelled command lists use
Stroke == 5
BeginPath == 6
MoveTo == 10
LineTo == 11

(***************************************************************************)
(* Inputs.                                                                 *)
(***************************************************************************)
\* "a", "ab"
Paths == {<<97>>, <<97, 98>>}
\* "", "R"
Selectors == {<<>>, <<82>>}
\* "i"
ImageNames == {<<105>>}
Dims == 0..MaxDim
Counts == 0..MaxCount
\* explicit channel names: none, "R", and "R" "G" "B" "A" "Z"
NameLists == {<<>>, <<<<82>>>>, RGBA \o <<<<90>>>>}

ChannelDesc(name, offset, stride) == [name |-> name, offset |-> offset, stride |-> stride]
\* none; one tight channel; one padded channel; two interleaved channels, the
\* later one first in memory; two planes of two floats
DescLists ==
    {<<>>,
     <<ChannelDesc(<<82>>, 0, 1)>>,
     <<ChannelDesc(<<82>>, 0, 3)>>,
     <<ChannelDesc(<<82>>, 1, 2), ChannelDesc(<<71>>, 0, 2)>>,
     <<ChannelDesc(<<82>>, 0, 1), ChannelDesc(<<71>>, 2, 1)>>}

\* the buffer length the documentation asks for: the largest index read, plus one
RECURSIVE MaxOver(_)
MaxOver(S) ==
    LET x == CHOOSE y \in S : TRUE
    IN  IF Cardinality(S) = 1 THEN x
        ELSE LET m == MaxOver(S \ {x}) IN IF x > m THEN x ELSE m

RequiredLength(channelDescs, width, height) ==
    MaxOver({channelDescs[c].offset + (width * height - 1) * channelDescs[c].stride + 1 :
                c \in 1..Len(channelDescs)})

\* buffer lengths around a required length n
LengthsAround(n) == {n - 1, n, n + 1} \cap Nat

\* the buffer lengths a strided update is called with
StridedLengths(channelDescs, width, height) ==
    IF channelDescs = <<>> THEN {0}
    ELSE LengthsAround(RequiredLength(channelDescs, width, height))

\* the x of the regions updated
Xs == {0, 1}

\* a buffer of n floats, float i holding the pattern i
ImageData(n) == [i \in 1..n |-> i]

\* the command lists: none, and beginPath moveTo(0,0) lineTo(1,1) stroke
VgCommand(type, data) == [type |-> type, dataCount |-> Len(data), data |-> data]
CommandLists ==
    {<<>>,
     <<VgCommand(BeginPath, <<>>), VgCommand(MoveTo, <<0, 0>>),
       VgCommand(LineTo, <<1, 1>>), VgCommand(Stroke, <<>>)>>}
\* addresses the caller's command array may have, and the sizes of a pointer
Addresses == {4096, 65536}
PointerSizes == {4, 8}

(***************************************************************************)
(* The packets of the calls the model makes.  A builder is a function of   *)
(* its arguments alone; each table holds, for the argument tuples drawn    *)
(* from the inputs above, the builder applied to a new IpcPacket (an empty *)
(* mPayload).                                                              *)
(***************************************************************************)
OpenImagePacket ==
    [a \in Paths \X Selectors \X BOOLEAN |-> setOpenImage(<<>>, a[1], a[2], a[3])]

ReloadImagePacket ==
    [a \in ImageNames \X BOOLEAN |-> setReloadImage(<<>>, a[1], a[2])]

CloseImagePacket ==
    [a \in ImageNames \X {TRUE} |-> setCloseImage(<<>>, a[1])]

\* <<imageName, grabFocus, width, height, channelNames>>
CreateImagePacket ==
    [a \in ImageNames \X BOOLEAN \X Dims \X Dims
            \X (NameLists \cup {SubSeq(RGBA, 1, n) : n \in 1..4}) |->
        setCreateImage(<<>>, a[1], a[2], a[3], a[4], Len(a[5]), a[5])]

\* <<imageName, grabFocus, channelDescs, x, y, width, height, imageData>>
UpdateImageInputs ==
    UNION {
        {<<n, f, d, x, 0, w, h, ImageData(l)>> :
            n \in ImageNames, f \in BOOLEAN, x \in Xs, l \in StridedLengths(d, w, h)}
        \cup (IF \E c \in 1..4 : d = DefaultChannelDescs(c)
              THEN {<<n, TRUE, d, 0, 0, w, h, ImageData(l)>> :
                        n \in ImageNames, l \in LengthsAround(w * h * Len(d))}
              ELSE {}) :
        d \in DescLists \cup {DefaultChannelDescs(c) : c \in 1..4},
        w \in Dims, h \in Dims}

UpdateImagePacket ==
    [a \in UpdateImageInputs |->
        setUpdateImage(<<>>, a[1], a[2], a[3], a[4], a[5], a[6], a[7], a[8])]

\* <<imageName, grabFocus, append, commands, addr, ptrSize>>
VectorGraphicsPacket ==
    [a \in ImageNames \X {TRUE} \X BOOLEAN \X CommandLists \X Addresses \X PointerSizes |->
        setVectorGraphics(<<>>, a[1], a[2], a[3], a[4], a[5], a[6])]

(***************************************************************************)
(* Client: the public commands.  Each operator gives what one call does:   *)
(*   s        the session afterwards                                       *)
(*   ret      the Error returned, or RuntimeError when an exception leaves *)
(*   built    the byte vectors of the IpcPackets the call constructed, in  *)
(*            order, as the call left them                                 *)
(*   sent     the calls of ::send(), in order                              *)
(*   connects the number of calls of Impl::connect()                       *)
(* env.net is what the network does to a connection attempt, env.first and *)
(* env.second what ::send() does to the first and second message.          *)
(***************************************************************************)
\* a packet handed to Impl::send, or the exception its builder threw
Deliver(s, packet, net, outcome) ==
    IF packet.thrown
    THEN [s |-> s, ret |-> RuntimeError, built |-> <<packet.mPayload>>,
          sent |-> <<>>, connects |-> 0]
    ELSE LET r == send(s, packet.mPayload, net, outcome)
         IN  [s |-> r.s, ret |-> r.ret, built |-> <<packet.mPayload>>,
              sent |-> r.sent, connects |-> r.connects]

\* a return before any packet exists
Reject(s, error, errorString) ==
    [s |-> setLastError(s, error, errorString), ret |-> error, built |-> <<>>,
     sent |-> <<>>, connects |-> 0]

openImage(s, imagePath, channelSelector, grabFocus, env) ==
    Deliver(s, OpenImagePacket[<<imagePath, channelSelector, grabFocus>>],
            env.net, env.first)

reloadImage(s, imageName, grabFocus, env) ==
    Deliver(s, ReloadImagePacket[<<imageName, grabFocus>>], env.net, env.first)

closeImage(s, imageName, env) ==
    Deliver(s, CloseImagePacket[<<imageName, TRUE>>], env.net, env.first)

\* a createImage that takes the limit of the default path for its own
createImage_atMost4(s, imageName, width, height, channelNames, grabFocus, env) ==
    IF width = 0 \/ height = 0
    THEN Reject(s, ImageError, "Image width and height must be greater than 0.")
    ELSE IF Len(channelNames) \notin 1..4
    THEN Reject(s, ImageError, "Image must have between 1 and 4 channels.")
    ELSE Deliver(s, CreateImagePacket[<<imageName, grabFocus, width, height, channelNames>>],
                 env.net, env.first)

\* createImage(imageName, width, height, channelNames, grabFocus)
createImage(s, imageName, width, height, channelNames, grabFocus, env) ==
    IF width = 0 \/ height = 0
    THEN Reject(s, ImageError, "Image width and height must be greater than 0.")
    ELSE IF channelNames = <<>>
    THEN Reject(s, ImageError, "Image must have at least one channel.")
    ELSE Deliver(s, CreateImagePacket[<<imageName, grabFocus, width, height, channelNames>>],
                 env.net, env.first)

\* createImage(imageName, width, height, channelCount, grabFocus)
createImageDefault(s, imageName, width, height, channelCount, grabFocus, env) ==
    IF channelCount \in 1..4
    THEN createImage(s, imageName, width, height, SubSeq(RGBA, 1, channelCount),
                     grabFocus, env)
    ELSE Reject(s, ImageError, "Image must have between 1 and 4 channels.")

\* updateImage(imageName, x, y, width, height, channelDescs, imageData,
\*             imageDataLength, grabFocus)
updateImage(s, imageName, x, y, width, height, channelDescs, imageData, grabFocus, net, outcome) ==
    Deliver(s, UpdateImagePacket[<<imageName, grabFocus, channelDescs, x, y, width, height, imageData>>],
            net, outcome)

\* updateImage(imageName, width, height, channelCount, imageData,
\*             imageDataLength, grabFocus).  The call it makes of the strided
\* overload passes eight arguments: grabFocus is left to that overload's
\* default, true as in every declaration of tevclient.h.
updateImageDefault(s, imageName, width, height, channelCount, imageData, grabFocus, net, outcome) ==
    IF channelCount \in 1..4
    THEN updateImage(s, imageName, 0, 0, width, height,
                     DefaultChannelDescs(channelCount), imageData, TRUE, net, outcome)
    ELSE Reject(s, ImageError, "Image must have between 1 and 4 channels.")

\* a create-and-fill that does not look at what the create step returned
createImageWithData_unconditional(s, imageName, width, height, channelCount, imageData, grabFocus, env) ==
    LET c == createImageDefault(s, imageName, width, height, channelCount, grabFocus, env)
        u == updateImageDefault(c.s, imageName, width, height, channelCount,
                                imageData, grabFocus, env.net, env.second)
    IN  [s |-> u.s, ret |-> u.ret, built |-> c.built \o u.built,
         sent |-> c.sent \o u.sent, connects |-> c.connects + u.connects]

\* createImage(imageName, width, height, channelCount, imageData,
\*             imageDataLength, grabFocus)
createImageWithData(s, imageName, width, height, channelCount, imageData, grabFocus, env) ==
    LET c == createImageDefault(s, imageName, width, height, channelCount, grabFocus, env)
    IN  IF c.ret # Ok THEN c
        ELSE LET u == updateImageDefault(c.s, imageName, width, height, channelCount,
                                         imageData, grabFocus, env.net, env.second)
             IN  [s |-> u.s, ret |-> u.ret, built |-> c.built \o u.built,
                  sent |-> c.sent \o u.sent, connects |-> c.connects + u.connects]

\* Client::vectorGraphics is declared in tevclient.h and defined nowhere in
\* the source at hand: this is the shape every other command has.
vectorGraphics(s, imageName, commands, append, grabFocus, addr, ptrSize, env) ==
    Deliver(s, VectorGraphicsPacket[<<imageName, grabFocus, append, commands, addr, ptrSize>>],
            env.net, env.first)

(***************************************************************************)
(* State.                                                                  *)
(***************************************************************************)
VARIABLES
    mSocketFd,          \* Client::Impl::mSocketFd
    mLastError,         \* Client::Impl::mLastError
    mLastErrorString,   \* Client::Impl::mLastErrorString
    call,               \* the last call of a public command: its name and arguments
    result,             \* what that call returned (RuntimeError: it threw)
    built,              \* the packets that call constructed
    sent,               \* the calls of ::send() that call made
    connects,           \* the calls of Impl::connect() that call made
    sInstanceCount,     \* static std::atomic<uint32_t> sInstanceCount
    pc,                 \* where each thread is in Impl::Impl / Impl::~Impl
    initCalls,          \* times the body of "if (sInstanceCount++ == 0)" was run
    teardownCalls,      \* times the body of "if (sInstanceCount-- == 1)" was run
    creates,            \* constructors begun
    platform,           \* the build: "win32" (_WIN32 defined) or "posix"
    netRefs,            \* win32: WSAStartup() calls not yet matched by WSACleanup();
                        \* posix: 1 once signal(SIGPIPE, SIG_IGN) was called
    wire,               \* the bytes the transport has taken, in order
    issued              \* the commands called so far: what each returned and built

Threads == 1..MaxThreads

sessionVars == <<mSocketFd, mLastError, mLastErrorString>>
callVars == <<call, result, built, sent, connects>>
bootVars == <<sInstanceCount, pc, initCalls, teardownCalls, creates, platform, netRefs>>
wireVars == <<wire, issued>>
vars == <<sessionVars, callVars, bootVars, wireVars>>

\* the session as the record the operators above take
Session ==
    [mSocketFd |-> mSocketFd, mLastError |-> mLastError,
     mLastErrorString |-> mLastErrorString]

\* what happens at the candidate addresses of one connection attempt
AddrResults == {"socket_fails", "connect_fails", "connects"}
RECURSIVE SeqsOf(_, _)
SeqsOf(S, n) ==
    IF n = 0 THEN {<<>>}
    ELSE {<<x>> \o q : x \in S, q \in SeqsOf(S, n - 1)}
\* the candidates of one attempt: connect() stops at the first that connects
AddrInfos ==
    {a \in UNION {SeqsOf(AddrResults, n) : n \in 1..MaxAddrs} :
        \A i \in 1..(Len(a) - 1) : a[i] # "connects"}
Nets ==
    {[gai |-> FALSE, addrinfo |-> <<>>]} \cup {[gai |-> TRUE, addrinfo |-> a] : a \in AddrInfos}
SendOutcomes == {"all", "short", "error"}

\* the network is consulted only by a session that is not connected, and
\* ::send() only once connect() has returned Ok
Envs ==
    IF mSocketFd # INVALID_SOCKET
    THEN {[net |-> [gai |-> TRUE, addrinfo |-> <<"connects">>], first |-> o, second |-> "all"] :
            o \in SendOutcomes}
    ELSE UNION {{[net |-> n, first |-> o, second |-> "all"] :
                    o \in (IF connect(Session, n).ret = Ok THEN SendOutcomes ELSE {"all"})} :
                n \in Nets}
\* for a call that sends two messages
Envs2 ==
    {[e EXCEPT !.second = o] : e \in Envs, o \in SendOutcomes}

(***************************************************************************)
(* The session model: one constructed Client and the calls made on it.     *)
(***************************************************************************)
NoCall == [op |-> "none"]

Init ==
    /\ mSocketFd = INVALID_SOCKET
    /\ mLastError = Ok
    /\ mLastErrorString = ""
    /\ call = NoCall
    /\ result = "none"
    /\ built = <<>>
    /\ sent = <<>>
    /\ connects = 0
    /\ sInstanceCount = 1
    /\ pc = [t \in Threads |-> IF t = 1 THEN "live" ELSE "idle"]
    /\ initCalls = 1
    /\ teardownCalls = 0
    /\ creates = 1
    /\ platform = "posix"
    /\ netRefs = 1
    /\ wire = <<>>
    /\ issued = <<>>

\* the call c returned with r
Return(c, r) ==
    /\ mSocketFd' = r.s.mSocketFd
    /\ mLastError' = r.s.mLastError
    /\ mLastErrorString' = r.s.mLastErrorString
    /\ call' = c
    /\ result' = r.ret
    /\ built' = r.built
    /\ sent' = r.sent
    /\ connects' = r.connects
    /\ UNCHANGED <<bootVars, wireVars>>

CallOpenImage ==
    /\ call = NoCall
    /\ \E imagePath \in Paths, channelSelector \in Selectors, grabFocus \in BOOLEAN, env \in Envs :
           Return([op |-> "openImage", imagePath |-> imagePath,
                   channelSelector |-> channelSelector, grabFocus |-> grabFocus],
                  openImage(Session, imagePath, channelSelector, grabFocus, env))

CallReloadImage ==
    /\ call = NoCall
    /\ \E imageName \in ImageNames, grabFocus \in BOOLEAN, env \in Envs :
           Return([op |-> "reloadImage", imageName |-> imageName, grabFocus |-> grabFocus],
                  reloadImage(Session, imageName, grabFocus, env))

CallCloseImage ==
    /\ call = NoCall
    /\ \E imageName \in ImageNames, env \in Envs :
           Return([op |-> "closeImage", imageName |-> imageName],
                  closeImage(Session, imageName, env))

CallCreateImage ==
    /\ call = NoCall
    /\ \E imageName \in ImageNames, width \in Dims, height \in Dims,
          channelNames \in NameLists, grabFocus \in BOOLEAN, env \in Envs :
           Return([op |-> "createImage", imageName |-> imageName, width |-> width,
                   height |-> height, channelNames |-> channelNames,
                   grabFocus |-> grabFocus],
                  createImage(Session, imageName, width, height, channelNames, grabFocus, env))

CallCreateImageDefault ==
    /\ call = NoCall
    /\ \E imageName \in ImageNames, width \in Dims, height \in Dims,
          channelCount \in Counts, grabFocus \in BOOLEAN, env \in Envs :
           Return([op |-> "createImageDefault", imageName |-> imageName, width |-> width,
                   height |-> height, channelCount |-> channelCount,
                   grabFocus |-> grabFocus],
                  createImageDefault(Session, imageName, width, height, channelCount,
                                     grabFocus, env))

CallCreateImageWithData ==
    /\ call = NoCall
    /\ \E imageName \in ImageNames, width \in Dims, height \in Dims,
          channelCount \in Counts, grabFocus \in BOOLEAN, env \in Envs2 :
         \E imageDataLength \in LengthsAround(width * height * channelCount) :
           Return([op |-> "createImageWithData", imageName |-> imageName, width |-> width,
                   height |-> height, channelCount |-> channelCount,
                   imageDataLength |-> imageDataLength, grabFocus |-> grabFocus],
                  createImageWithData(Session, imageName, width, height, channelCount,
                                      ImageData(imageDataLength), grabFocus, env))

CallUpdateImage ==
    /\ call = NoCall
    /\ \E imageName \in ImageNames, x \in Xs, width \in Dims, height \in Dims,
          channelDescs \in DescLists, grabFocus \in BOOLEAN, env \in Envs :
         \E imageDataLength \in StridedLengths(channelDescs, width, height) :
           Return([op |-> "updateImage", imageName |-> imageName, x |-> x, y |-> 0,
                   width |-> width, height |-> height, channelDescs |-> channelDescs,
                   imageDataLength |-> imageDataLength, grabFocus |-> grabFocus],
                  updateImage(Session, imageName, x, 0, width, height, channelDescs,
                              ImageData(imageDataLength), grabFocus, env.net, env.first))

CallUpdateImageDefault ==
    /\ call = NoCall
    /\ \E imageName \in ImageNames, width \in Dims, height \in Dims,
          channelCount \in Counts, grabFocus \in BOOLEAN, env \in Envs :
         \E imageDataLength \in LengthsAround(width * height * channelCount) :
           Return([op |-> "updateImageDefault", imageName |-> imageName, width |-> width,
                   height |-> height, channelCount |-> channelCount,
                   imageDataLength |-> imageDataLength, grabFocus |-> grabFocus],
                  updateImageDefault(Session, imageName, width, height, channelCount,
                                     ImageData(imageDataLength), grabFocus,
                                     env.net, env.first))

CallVectorGraphics ==
    /\ call = NoCall
    /\ \E imageName \in ImageNames, commands \in CommandLists, append \in BOOLEAN,
          addr \in Addresses, ptrSize \in PointerSizes, env \in Envs :
           Return([op |-> "vectorGraphics", imageName |-> imageName, commands |-> commands,
                   append |-> append, grabFocus |-> TRUE],
                  vectorGraphics(Session, imageName, commands, append, TRUE, addr,
                                 ptrSize, env))

\* the caller has looked at what its call returned and goes on
Proceed ==
    /\ call # NoCall
    /\ call' = NoCall
    /\ result' = "none"
    /\ built' = <<>>
    /\ sent' = <<>>
    /\ connects' = 0
    /\ UNCHANGED <<sessionVars, bootVars, wireVars>>

Next ==
    \/ Proceed
    \/ CallOpenImage
    \/ CallReloadImage
    \/ CallCloseImage
    \/ CallCreateImage
    \/ CallCreateImageDefault
    \/ CallCreateImageWithData
    \/ CallUpdateImage
    \/ CallUpdateImageDefault
    \/ CallVectorGraphics

Spec == Init /\ [][Next]_vars

(***************************************************************************)
(* The bootstrap model: threads that construct and destroy sessions.  A    *)
(* thread holds at most one session at a time; its sessions issue no       *)
(* command, so each is unconnected when its destructor runs.               *)
(* sInstanceCount is a std::atomic: the increment and the decrement are    *)
(* each one step that yields the old value; the body of the if statement   *)
(* that tests the old value is a later step of the same thread.  The body  *)
(* of the destructor's if statement is WSACleanup() on Windows and empty   *)
(* elsewhere; teardownCalls counts the times it is entered.  The network   *)
(* subsystem is initialized while netRefs is positive.                     *)
(***************************************************************************)
\* sInstanceCount++ == 0
FirstIn(old) == old = 0
\* the builds the #ifdef _WIN32 of the constructor and destructor tells apart
Platforms == {"win32", "posix"}

\* the body of the constructor's if statement.  win32: WSAStartup(), taken to
\* succeed; Winsock counts the calls.  posix: signal(SIGPIPE, SIG_IGN).
Startup(build, refs) == IF build = "win32" THEN refs + 1 ELSE 1

\* the body of the destructor's if statement.  win32: WSACleanup(), which
\* undoes one WSAStartup().  posix: empty.
Cleanup(build, refs) ==
    IF build = "win32" THEN (IF refs > 0 THEN refs - 1 ELSE 0) ELSE refs

\* a test of the decremented value: --sInstanceCount == 1
LastOut_newValue(old) == old - 1 = 1

\* sInstanceCount-- == 1
LastOut(old) == old = 1

InitBoot ==
    /\ mSocketFd = INVALID_SOCKET
    /\ mLastError = Ok
    /\ mLastErrorString = ""
    /\ call = NoCall
    /\ result = "none"
    /\ built = <<>>
    /\ sent = <<>>
    /\ connects = 0
    /\ sInstanceCount = 0
    /\ pc = [t \in Threads |-> "idle"]
    /\ initCalls = 0
    /\ teardownCalls = 0
    /\ creates = 0
    /\ platform \in Platforms
    /\ netRefs = 0
    /\ wire = <<>>
    /\ issued = <<>>

\* Impl::Impl: sInstanceCount++ and the test of the value it yields
CtorInc(t) ==
    /\ pc[t] = "idle"
    /\ creates < MaxCreates
    /\ sInstanceCount' = sInstanceCount + 1
    /\ pc' = [pc EXCEPT ![t] = IF FirstIn(sInstanceCount) THEN "init" ELSE "live"]
    /\ creates' = creates + 1
    /\ UNCHANGED <<sessionVars, callVars, wireVars, initCalls, teardownCalls, platform, netRefs>>

\* Impl::Impl: the body of the if statement (WSAStartup / signal), then return
CtorInit(t) ==
    /\ pc[t] = "init"
    /\ initCalls' = initCalls + 1
    /\ netRefs' = Startup(platform, netRefs)
    /\ pc' = [pc EXCEPT ![t] = "live"]
    /\ UNCHANGED <<sessionVars, callVars, wireVars, sInstanceCount, teardownCalls, creates, platform>>

\* Impl::~Impl: disconnect(), sInstanceCount-- and the test of the value it yields
DtorDec(t) ==
    /\ pc[t] = "live"
    /\ \E closes \in BOOLEAN :
         LET d == disconnect(Session, closes)
         IN  /\ mSocketFd' = d.s.mSocketFd
             /\ mLastError' = d.s.mLastError
             /\ mLastErrorString' = d.s.mLastErrorString
    /\ sInstanceCount' = sInstanceCount - 1
    /\ pc' = [pc EXCEPT ![t] = IF LastOut(sInstanceCount) THEN "teardown" ELSE "idle"]
    /\ UNCHANGED <<callVars, wireVars, initCalls, teardownCalls, creates, platform, netRefs>>

\* Impl::~Impl: the body of the if statement (WSACleanup), then return
DtorTeardown(t) ==
    /\ pc[t] = "teardown"
    /\ teardownCalls' = teardownCalls + 1
    /\ netRefs' = Cleanup(platform, netRefs)
    /\ pc' = [pc EXCEPT ![t] = "idle"]
    /\ UNCHANGED <<sessionVars, callVars, wireVars, sInstanceCount, initCalls, creates, platform>>

NextBoot ==
    \E t \in Threads :
        \/ CtorInc(t)
        \/ CtorInit(t)
        \/ DtorDec(t)
        \/ DtorTeardown(t)

SpecBoot == InitBoot /\ [][NextBoot]_vars

(***************************************************************************)
(* The wire model: commands called one after the other on one session, and *)
(* the byte stream the transport receives.  ::send() returns the number of *)
(* bytes it took from the front of the message, or -1 having taken none.   *)
(***************************************************************************)
\* the bytes the transport took in the calls of ::send() listed in s
RECURSIVE Taken(_)
Taken(s) ==
    IF s = <<>> THEN <<>>
    ELSE (IF Head(s).bytesSent > 0 THEN SubSeq(Head(s).msg, 1, Head(s).bytesSent) ELSE <<>>)
         \o Taken(Tail(s))

\* the call c returned with r; the transport has taken what ::send() reported
Transmit(c, r) ==
    /\ mSocketFd' = r.s.mSocketFd
    /\ mLastError' = r.s.mLastError
    /\ mLastErrorString' = r.s.mLastErrorString
    /\ call' = c
    /\ result' = r.ret
    /\ built' = r.built
    /\ sent' = r.sent
    /\ connects' = r.connects
    /\ wire' = wire \o Taken(r.sent)
    /\ issued' = Append(issued, [ret |-> r.ret, frames |-> r.built])
    /\ UNCHANGED bootVars

WireOpenImage ==
    /\ Len(issued) < MaxCalls
    /\ \E imagePath \in Paths, env \in Envs :
           Transmit([op |-> "openImage", imagePath |-> imagePath,
                     channelSelector |-> <<>>, grabFocus |-> TRUE],
                    openImage(Session, imagePath, <<>>, TRUE, env))

WireCloseImage ==
    /\ Len(issued) < MaxCalls
    /\ \E imageName \in ImageNames, env \in Envs :
           Transmit([op |-> "closeImage", imageName |-> imageName],
                    closeImage(Session, imageName, env))

WireCreateImageWithData ==
    /\ Len(issued) < MaxCalls
    /\ \E imageName \in ImageNames, channelCount \in {1, 2}, env \in Envs2 :
           Transmit([op |-> "createImageWithData", imageName |-> imageName, width |-> 1,
                     height |-> 1, channelCount |-> channelCount,
                     imageDataLength |-> channelCount, grabFocus |-> TRUE],
                    createImageWithData(Session, imageName, 1, 1, channelCount,
                                        ImageData(channelCount), TRUE, env))

NextWire ==
    \/ WireOpenImage
    \/ WireCloseImage
    \/ WireCreateImageWithData

SpecWire == Init /\ [][NextWire]_vars

(***************************************************************************)
(* A receiver's reading of a frame: the length prefix, the tag, the flag,  *)
(* null-terminated strings and little-endian integers, taken from the      *)
(* bytes alone.  Indices are 1-based: the prefix is bytes 1..4, the tag    *)
(* byte 5, the flag byte 6, and the first string begins at byte 7.         *)
(***************************************************************************)
Prefix(frame) == FromLE(SubSeq(frame, 1, 4))
Tag(frame) == frame[5]
U32At(frame, i) == FromLE(SubSeq(frame, i, i + 3))
I64At(frame, i) == FromLE(SubSeq(frame, i, i + 7))

\* bytes from index i up to the first null byte
RECURSIVE CStrLen(_, _)
CStrLen(frame, i) ==
    IF i > Len(frame) \/ frame[i] = 0 THEN 0 ELSE 1 + CStrLen(frame, i + 1)

CStr(frame, i) == SubSeq(frame, i, i + CStrLen(frame, i) - 1)

\* n null-terminated strings from index i on, and the index after them
RECURSIVE CStrs(_, _, _)
CStrs(frame, i, n) ==
    IF n = 0 THEN <<>>
    ELSE <<CStr(frame, i)>> \o CStrs(frame, i + CStrLen(frame, i) + 1, n - 1)

RECURSIVE CStrsEnd(_, _, _)
CStrsEnd(frame, i, n) ==
    IF n = 0 THEN i ELSE CStrsEnd(frame, i + CStrLen(frame, i) + 1, n - 1)

DecodeOpenImage(frame) ==
    LET imagePath == CStr(frame, 7)
        a == 7 + Len(imagePath) + 1
        channelSelector == CStr(frame, a)
    IN  [length |-> Prefix(frame), type |-> Tag(frame), grabFocus |-> frame[6],
         imagePath |-> imagePath, channelSelector |-> channelSelector,
         end |-> a + Len(channelSelector) + 1]

DecodeCreateImage(frame) ==
    LET imageName == CStr(frame, 7)
        a == 7 + Len(imageName) + 1
        nChannels == U32At(frame, a + 8)
    IN  [type |-> Tag(frame), grabFocus |-> frame[6], imageName |-> imageName,
         width |-> U32At(frame, a), height |-> U32At(frame, a + 4),
         nChannels |-> nChannels, channelNames |-> CStrs(frame, a + 12, nChannels),
         end |-> CStrsEnd(frame, a + 12, nChannels)]

\* the header of an UpdateImage frame; the pixel data begins at index data
DecodeUpdateImage(frame) ==
    LET imageName == CStr(frame, 7)
        a == 7 + Len(imageName) + 1
        nChannels == U32At(frame, a)
        b == CStrsEnd(frame, a + 4, nChannels)
    IN  [type |-> Tag(frame), grabFocus |-> frame[6], imageName |-> imageName,
         nChannels |-> nChannels, channelNames |-> CStrs(frame, a + 4, nChannels),
         x |-> U32At(frame, b), y |-> U32At(frame, b + 4),
         width |-> U32At(frame, b + 8), height |-> U32At(frame, b + 12),
         channelOffsets |-> [c \in 1..nChannels |-> I64At(frame, b + 16 + 8 * (c - 1))],
         channelStrides |-> [c \in 1..nChannels |->
                                I64At(frame, b + 16 + 8 * nChannels + 8 * (c - 1))],
         data |-> b + 16 + 16 * nChannels]

\* the call made ::send() take every byte of message i
FullySent(i) == i <= Len(sent) /\ sent[i].bytesSent = Len(sent[i].msg)

(***************************************************************************)
(* The properties.                                                         *)
(***************************************************************************)

\* C1: every frame a command hands to ::send() begins with a 4-byte length
\* prefix whose value is the number of bytes of the frame, the prefix
\* included.
C1_PrefixIsFrameLength ==
    \A i \in 1..Len(sent) :
        /\ Len(sent[i].msg) >= 4
        /\ Prefix(sent[i].msg) = Len(sent[i].msg)

\* a strided update whose frame, pixel data included, was handed to ::send()
C1_Witness ==
    /\ call.op = "updateImage"
    /\ call.imageDataLength >= 2
    /\ Len(sent) = 1
    /\ Len(sent[1].msg) = DecodeUpdateImage(sent[1].msg).data - 1 + 4 * call.imageDataLength

\* C2: a strided updateImage with at least one channel, on a transport that
\* works, returns Ok exactly when the buffer length is the largest of
\* offset[c] + (width*height-1)*stride[c] + 1, and returns the argument error
\* for a buffer one element shorter or one element longer than that.
C2_SucceedsIffLengthMatches ==
    (call.op = "updateImage" /\ call.channelDescs # <<>> /\ result # SocketError) =>
        LET required == RequiredLength(call.channelDescs, call.width, call.height)
        IN  /\ (result = Ok) <=> (call.imageDataLength = required)
            /\ call.imageDataLength \in {required - 1, required + 1} => result = ImageError

C4_SuccessClearsLastError ==
    (call # NoCall /\ result = Ok) => (mLastError = Ok /\ mLastErrorString = "")

\* C5: after a command that failed, lastError() is the failure the command
\* reported and lastErrorString() holds a message.
C5_LastErrorIsTheFailure ==
    (call # NoCall /\ result # Ok) => (mLastError = result /\ mLastErrorString # "")

\* C6: a command that fails for its arguments (zero width or height, no
\* channel, a channel count the default path does not take, a buffer of the
\* wrong length) has written no byte into a packet, has made no connection
\* attempt and has handed nothing to ::send().
C6_ArgumentErrorsBeforeAnyByte ==
    (call # NoCall /\ result \in {ImageError, RuntimeError}) =>
        /\ \A i \in 1..Len(built) : built[i] = <<>>
        /\ sent = <<>>
        /\ connects = 0

\* C7: create-and-fill hands the CreateImage frame to ::send() first and,
\* only if that step returned Ok, builds the UpdateImage frame for the region
\* x=0, y=0, width, height and hands it over next; if the create step failed
\* no UpdateImage packet is built or sent and the result is the create
\* step's error.
C7_CreateThenUpdate ==
    call.op = "createImageWithData" =>
        /\ Len(built) <= 2
        /\ Len(sent) <= Len(built)
        /\ \A i \in 1..Len(sent) : sent[i].msg = built[i]
        /\ built = <<>> => result = ImageError
        /\ built # <<>> =>
              LET c == DecodeCreateImage(built[1])
              IN  /\ c.type = CreateImage
                  /\ c.imageName = call.imageName
                  /\ c.width = call.width /\ c.height = call.height
        /\ (built # <<>> /\ ~FullySent(1)) => result = SocketError
        /\ ~FullySent(1) => (Len(built) <= 1 /\ result = mLastError)
        /\ FullySent(1) =>
              /\ Len(built) = 2
              /\ built[2] # <<>>
              /\ LET u == DecodeUpdateImage(built[2])
                 IN  /\ u.type = UpdateImageV3
                     /\ u.imageName = call.imageName
                     /\ u.x = 0 /\ u.y = 0
                     /\ u.width = call.width /\ u.height = call.height
        /\ result = Ok => (FullySent(1) /\ FullySent(2))

\* a create-and-fill whose two frames were both taken by ::send()
C7_Witness ==
    /\ call.op = "createImageWithData"
    /\ result = Ok
    /\ Len(sent) = 2
    /\ Tag(sent[1].msg) = CreateImage
    /\ Tag(sent[2].msg) = UpdateImageV3

C9_FiveChannels ==
    /\ (call.op = "createImageDefault" /\ call.channelCount > 4) =>
            (result = ImageError /\ built = <<>> /\ sent = <<>>)
    /\ (call.op = "createImage" /\ Len(call.channelNames) = 5
            /\ call.width > 0 /\ call.height > 0) =>
            /\ result \in {Ok, SocketError}
            /\ Len(built) = 1
            /\ LET c == DecodeCreateImage(built[1])
               IN  /\ c.type = CreateImage
                   /\ c.nChannels = 5
                   /\ c.channelNames = call.channelNames
                   /\ c.end = Len(built[1]) + 1
            /\ result = Ok <=> (FullySent(1) /\ sent[1].msg = built[1])

\* a createImage with five names whose frame ::send() took
C9_Witness ==
    /\ call.op = "createImage"
    /\ Len(call.channelNames) = 5
    /\ result = Ok
    /\ FullySent(1)

\* C10: for a channel count n of 1..4 the default createImage names the
\* channels by the first n of R, G, B, A, and the default updateImage builds
\* a frame with those names, offset i and stride n for channel i = 0..n-1,
\* and the region x=0, y=0, width, height.
C10_DefaultChannels ==
    /\ (call.op = "createImageDefault" /\ built # <<>>) =>
            LET c == DecodeCreateImage(built[1])
            IN  /\ c.nChannels = call.channelCount
                /\ c.channelNames = SubSeq(RGBA, 1, call.channelCount)
    /\ (call.op = "updateImageDefault" /\ call.channelCount \in 1..4) =>
            /\ Len(built) = 1
            /\ LET u == DecodeUpdateImage(built[1])
                   n == call.channelCount
               IN  /\ u.type = UpdateImageV3
                   /\ u.nChannels = n
                   /\ u.channelNames = SubSeq(RGBA, 1, n)
                   /\ u.channelOffsets = [i \in 1..n |-> i - 1]
                   /\ u.channelStrides = [i \in 1..n |-> n]
                   /\ u.x = 0 /\ u.y = 0
                   /\ u.width = call.width /\ u.height = call.height

\* a default update of three channels whose frame ::send() took
C10_Witness ==
    /\ call.op = "updateImageDefault"
    /\ call.channelCount = 3
    /\ call.width = 2
    /\ result = Ok
    /\ FullySent(1)
    /\ DecodeUpdateImage(sent[1].msg).channelStrides = <<3, 3, 3>>

\* C11: createImage and updateImage, strided and default alike, called with a
\* width or height of zero or with no channel, return the argument error and
\* hand nothing to ::send().
C11_ZeroDimensionsRejected ==
    LET zeroChannels ==
            CASE call.op = "createImage" -> call.channelNames = <<>>
              [] call.op = "updateImage" -> call.channelDescs = <<>>
              [] OTHER -> call.channelCount = 0
    IN  (/\ call.op \in {"createImage", "createImageDefault", "createImageWithData",
                         "updateImage", "updateImageDefault"}
         /\ (call.width = 0 \/ call.height = 0 \/ zeroChannels)) =>
            (result = ImageError /\ sent = <<>>)

\* C12: every command ends by returning an Error value; none ends by
\* throwing.
C12_NoCommandThrows ==
    call # NoCall => result \in {Ok, NotConnected, SocketError, ImageError}

\* the frames of the calls listed in q, one after the other
RECURSIVE Concat(_)
Concat(q) == IF q = <<>> THEN <<>> ELSE Head(q) \o Concat(Tail(q))

RECURSIVE FramesOf(_)
FramesOf(q) == IF q = <<>> THEN <<>> ELSE Concat(Head(q).frames) \o FramesOf(Tail(q))

\* C13: when every command called so far on the session returned Ok, the
\* byte stream the transport has received is the frames those commands
\* built, each whole, once, in the order of the calls.
C13_WireIsFramesInCallOrder ==
    (\A i \in 1..Len(issued) : issued[i].ret = Ok) => wire = FramesOf(issued)

\* an open, a create-and-fill and a close, all taken whole: four frames
C13_Witness ==
    /\ Len(issued) = 3
    /\ \A i \in 1..3 : issued[i].ret = Ok
    /\ Len(issued[1].frames) = 1
    /\ Len(issued[2].frames) = 2
    /\ Tag(issued[3].frames[1]) = CloseImage
    /\ Len(wire) > Len(Concat(issued[2].frames))

\* C14: the frame openImage builds, read as a 4-byte length, a tag byte, a
\* flag byte and two null-terminated strings, gives back the path, the
\* selector and the flag; the tag is 7, the flag byte is 1 for true and 0 for
\* false, each string is followed by one null byte and the frame ends there.
C14_OpenImageRoundTrip ==
    call.op = "openImage" =>
        /\ Len(built) = 1
        /\ LET frame == built[1]
               o == DecodeOpenImage(frame)
           IN  /\ o.length = Len(frame)
               /\ o.type = 7
               /\ o.grabFocus = (IF call.grabFocus THEN 1 ELSE 0)
               /\ o.imagePath = call.imagePath
               /\ o.channelSelector = call.channelSelector
               /\ frame[7 + Len(call.imagePath)] = 0
               /\ frame[o.end - 1] = 0
               /\ o.end = Len(frame) + 1
               /\ Len(frame) = 6 + Len(call.imagePath) + 1 + Len(call.channelSelector) + 1

\* an openImage with a two-character path, a selector and grabFocus false
C14_Witness ==
    /\ call.op = "openImage"
    /\ Len(call.imagePath) = 2
    /\ call.channelSelector # <<>>
    /\ ~call.grabFocus
    /\ Len(built) = 1
    /\ DecodeOpenImage(built[1]).channelSelector = call.channelSelector

\* bytes the entries of commands 1..k take when each is its kind byte
\* followed by the floats of its kind
RECURSIVE EntryBytes(_, _)
EntryBytes(commands, k) ==
    IF k = 0 THEN 0
    ELSE EntryBytes(commands, k - 1) + 1 + 4 * commands[k].dataCount

\* C15: a VectorGraphics frame carries the command count as an int32 and
\* then, for each command in order, its kind byte followed by the floats of
\* that kind (none for beginPath and stroke, two for moveTo and lineTo), and
\* nothing else: beginPath, moveTo(0,0), lineTo(1,1), stroke are four entries
\* with payload lengths 0, 2, 2, 0.
C15_PayloadLengthByKind ==
    call.op = "vectorGraphics" =>
        /\ Len(built) = 1
        /\ LET frame == built[1]
               commands == call.commands
               \* the count follows the tag, the flag, the name and the append flag
               a == 7 + CStrLen(frame, 7) + 2
               entry(k) == a + 4 + EntryBytes(commands, k - 1)
           IN  /\ Tag(frame) = VectorGraphics
               /\ U32At(frame, a) = Len(commands)
               /\ Len(frame) = a + 3 + EntryBytes(commands, Len(commands))
               /\ \A k \in 1..Len(commands) :
                     /\ frame[entry(k)] = commands[k].type
                     /\ SubSeq(frame, entry(k) + 1, entry(k) + 4 * commands[k].dataCount)
                            = FloatBytes(commands[k].data)

\* C16: send() goes on to ::send() exactly when connect() returned Ok, so
\* after a command that made a connection attempt, a frame was handed to
\* ::send() if and only if the session is connected; when the attempt ended
\* connected and the transport took the frame, the command returned Ok and
\* the last error is Ok.
C16_ConnectResultAgreesWithState ==
    (call # NoCall /\ connects >= 1) =>
        /\ (sent # <<>>) <=> (mSocketFd # INVALID_SOCKET)
        /\ (mSocketFd # INVALID_SOCKET /\ \A i \in 1..Len(sent) : FullySent(i)) =>
                (result \in {Ok, RuntimeError} /\ mLastError = Ok)

\* C17: whenever a session has finished construction and has not started
\* destruction, the network subsystem is initialized, under every
\* interleaving of the constructors and destructors of the threads.
C17_LiveSessionsHaveNetwork ==
    (\E t \in Threads : pc[t] = "live") => netRefs > 0

=============================================================================
